---- MODULE Spec2Model ----
(***************************************************************************)
(* Model of pw_pathux (src/src/str_path.rs, src/src/lib.rs) on a Unix      *)
(* target (MAIN_SEPARATOR = '/', no volume prefixes).                      *)
(*                                                                         *)
(* A path text is a sequence of one-character strings.  The operations of  *)
(* std::path that the macros call (Path::components, Path::is_absolute,    *)
(* PathBuf::push, Path::join, Path::strip_prefix) are modelled the way the *)
(* standard library computes them on Unix, at the call sites named in      *)
(* MODEL_MAP.json.                                                         *)
(***************************************************************************)
EXTENDS Integers, Sequences, FiniteSets, TLC

VARIABLES text, cwd, home, op, base, result

\* one call of usable_dir_entries: what read_dir will yield, and the call's progress
VARIABLES read_dir, listing, next_entry, entries, stderr_log

dir_vars == <<read_dir, listing, next_entry, entries, stderr_log>>

vars == <<text, cwd, home, op, base, result, dir_vars>>

(***************************************************************************)
(* Bounds and input sets                                                   *)
(***************************************************************************)
MaxLen == 4

MaxEntries == 3

MAIN_SEPARATOR == "/"

Alphabet == {"/", ".", "~", "a"}

RECURSIVE TextsOfLen(_)
TextsOfLen(k) ==
    IF k = 0 THEN {<<>>}
    ELSE {Append(t, c) : t \in TextsOfLen(k - 1), c \in Alphabet}

Texts == UNION {TextsOfLen(k) : k \in 0..MaxLen}

\* io::Result<String> / Option<String>
Ok(v) == [ok |-> TRUE, val |-> v]
Err == [ok |-> FALSE, val |-> <<>>]

\* what env::current_dir() can return: an absolute directory, or an error
CwdValues == {Err, Ok(<<"/">>), Ok(<<"/", "a">>)}

\* what dirs::home_dir() can return: an absolute directory, or None
HomeValues == {Err, Ok(<<"/", "a">>), Ok(<<"/", "a", "/", "a">>)}

\* left operands offered to path_join / path_push
Bases == {<<>>, <<"/">>, <<"a">>, <<"a", "/">>}

(***************************************************************************)
(* Sequence helpers                                                        *)
(***************************************************************************)
Drop(s, n) == SubSeq(s, n + 1, Len(s))

Take(s, n) == SubSeq(s, 1, n)

is_sep(b) == b = MAIN_SEPARATOR

\* slice.iter().position(is_sep): 0-based index of the first separator, or -1
Position(s) ==
    IF \E i \in 1..Len(s) : is_sep(s[i])
    THEN (CHOOSE i \in 1..Len(s) : is_sep(s[i]) /\ \A j \in 1..(i - 1) : ~is_sep(s[j])) - 1
    ELSE -1

\* slice.iter().rposition(is_sep): 0-based index of the last separator, or -1
RPosition(s) ==
    IF \E i \in 1..Len(s) : is_sep(s[i])
    THEN (CHOOSE i \in 1..Len(s) : is_sep(s[i]) /\ \A j \in (i + 1)..Len(s) : ~is_sep(s[j])) - 1
    ELSE -1

(***************************************************************************)
(* std::path::Component and StrPathComponent values                        *)
(***************************************************************************)
RootDir == [kind |-> "RootDir", text |-> <<>>]
HomeDir == [kind |-> "HomeDir", text |-> <<>>]
CurDir == [kind |-> "CurDir", text |-> <<>>]
ParentDir == [kind |-> "ParentDir", text |-> <<>>]
Normal(s) == [kind |-> "Normal", text |-> s]
NoComponent == [kind |-> "None", text |-> <<>>]

\* Component::as_os_str
as_os_str(c) ==
    CASE c.kind = "RootDir" -> <<MAIN_SEPARATOR>>
      [] c.kind = "CurDir" -> <<".">>
      [] c.kind = "ParentDir" -> <<".", ".">>
      [] OTHER -> c.text

(***************************************************************************)
(* std::path::Components, the iterator behind Path::components()           *)
(***************************************************************************)
\* Components::parse_single_component that also drops ".."
parse_single_component_dropdotdot(comp) ==
    IF comp = <<>> \/ comp = <<".">> \/ comp = <<".", ".">> THEN NoComponent
    ELSE Normal(comp)

\* Components::parse_single_component (not verbatim): "." and "" give nothing
parse_single_component(comp) ==
    IF comp = <<".">> THEN NoComponent
    ELSE IF comp = <<".", ".">> THEN ParentDir
    ELSE IF comp = <<>> THEN NoComponent
    ELSE Normal(comp)

\* Path::components(): the iterator before its first step
PathComponents(s) ==
    [path |-> s,
     has_physical_root |-> (s # <<>> /\ is_sep(s[1])),
     front |-> "StartDir",
     back |-> "Body"]

\* Components::include_cur_dir
include_cur_dir(it) ==
    /\ ~it.has_physical_root
    /\ Len(it.path) >= 1
    /\ it.path[1] = "."
    /\ (Len(it.path) = 1 \/ is_sep(it.path[2]))

\* Components::parse_next_component: <<size, component>>
parse_next_component(it) ==
    LET i == Position(it.path)
        comp == IF i = -1 THEN it.path ELSE Take(it.path, i)
        extra == IF i = -1 THEN 0 ELSE 1
    IN <<Len(comp) + extra, parse_single_component(comp)>>

\* Components::len_before_body
len_before_body(it) ==
    LET root == IF it.front = "StartDir" /\ it.has_physical_root THEN 1 ELSE 0
        cur_dir == IF it.front = "StartDir" /\ include_cur_dir(it) THEN 1 ELSE 0
    IN root + cur_dir

\* Components::parse_next_component_back: <<size, component>>
parse_next_component_back(it) ==
    LET start == len_before_body(it)
        body == Drop(it.path, start)
        i == RPosition(body)
        comp == IF i = -1 THEN body ELSE Drop(body, i + 1)
        extra == IF i = -1 THEN 0 ELSE 1
    IN <<Len(comp) + extra, parse_single_component(comp)>>

\* Iterator::next for Components: [item |-> component or NoComponent, it |-> iterator]
RECURSIVE ComponentsNext(_)
ComponentsNext(it) ==
    IF it.front = "Done" THEN [item |-> NoComponent, it |-> it]
    ELSE IF it.front = "StartDir" THEN
        IF it.has_physical_root
        THEN [item |-> RootDir, it |-> [it EXCEPT !.front = "Body", !.path = Drop(it.path, 1)]]
        ELSE IF include_cur_dir(it)
        THEN [item |-> CurDir, it |-> [it EXCEPT !.front = "Body", !.path = Drop(it.path, 1)]]
        ELSE ComponentsNext([it EXCEPT !.front = "Body"])
    ELSE IF it.path # <<>> THEN
        LET pn == parse_next_component(it)
            nx == [it EXCEPT !.path = Drop(it.path, pn[1])]
        IN IF pn[2] # NoComponent THEN [item |-> pn[2], it |-> nx] ELSE ComponentsNext(nx)
    ELSE [item |-> NoComponent, it |-> [it EXCEPT !.front = "Done"]]

\* Iterator::collect over Components
RECURSIVE Collect(_)
Collect(it) ==
    LET n == ComponentsNext(it)
    IN IF n.item = NoComponent THEN <<>> ELSE <<n.item>> \o Collect(n.it)

\* Path::new(s).components() collected
Components(s) == Collect(PathComponents(s))

\* Components::trim_left
RECURSIVE trim_left(_)
trim_left(it) ==
    IF it.path = <<>> THEN it
    ELSE LET pn == parse_next_component(it)
         IN IF pn[2] # NoComponent THEN it
            ELSE trim_left([it EXCEPT !.path = Drop(it.path, pn[1])])

\* Components::trim_right
RECURSIVE trim_right(_)
trim_right(it) ==
    IF Len(it.path) <= len_before_body(it) THEN it
    ELSE LET pn == parse_next_component_back(it)
         IN IF pn[2] # NoComponent THEN it
            ELSE trim_right([it EXCEPT !.path = Take(it.path, Len(it.path) - pn[1])])

\* Components::as_path: the text the iterator has not yet consumed
as_path(it) ==
    LET l == IF it.front = "Body" THEN trim_left(it) ELSE it
        r == IF l.back = "Body" THEN trim_right(l) ELSE l
    IN r.path

\* Components::finished, with the states ordered Prefix < StartDir < Body < Done
StateRank(st) ==
    CASE st = "Prefix" -> 0
      [] st = "StartDir" -> 1
      [] st = "Body" -> 2
      [] OTHER -> 3

finished(it) ==
    \/ it.front = "Done"
    \/ it.back = "Done"
    \/ StateRank(it.front) > StateRank(it.back)

\* DoubleEndedIterator::next_back for Components
RECURSIVE ComponentsNextBack(_)
ComponentsNextBack(it) ==
    IF finished(it) THEN [item |-> NoComponent, it |-> it]
    ELSE IF it.back = "Body" THEN
        IF Len(it.path) > len_before_body(it)
        THEN LET pn == parse_next_component_back(it)
                 nx == [it EXCEPT !.path = Take(it.path, Len(it.path) - pn[1])]
             IN IF pn[2] # NoComponent THEN [item |-> pn[2], it |-> nx]
                ELSE ComponentsNextBack(nx)
        ELSE ComponentsNextBack([it EXCEPT !.back = "StartDir"])
    ELSE IF it.back = "StartDir" THEN
        IF it.has_physical_root
        THEN [item |-> RootDir,
              it |-> [it EXCEPT !.back = "Prefix", !.path = Take(it.path, Len(it.path) - 1)]]
        ELSE IF include_cur_dir(it)
        THEN [item |-> CurDir,
              it |-> [it EXCEPT !.back = "Prefix", !.path = Take(it.path, Len(it.path) - 1)]]
        ELSE ComponentsNextBack([it EXCEPT !.back = "Prefix"])
    ELSE [item |-> NoComponent, it |-> [it EXCEPT !.back = "Done"]]

\* Path::file_name taken as the last Normal component anywhere in the path
RECURSIVE LastNormal(_)
LastNormal(comps) ==
    IF comps = <<>> THEN Err
    ELSE IF comps[Len(comps)].kind = "Normal" THEN Ok(comps[Len(comps)].text)
    ELSE LastNormal(Take(comps, Len(comps) - 1))

PathFileName_lastnormal(s) == LastNormal(Collect(PathComponents(s)))

\* Path::file_name: the last component when it is Normal
PathFileName(s) ==
    LET p == ComponentsNextBack(PathComponents(s)).item
    IN IF p.kind = "Normal" THEN Ok(p.text) ELSE Err

\* Path::parent giving None when nothing is left before the last component
PathParent_noempty(s) ==
    LET n == ComponentsNextBack(PathComponents(s))
    IN IF n.item.kind \in {"Normal", "CurDir", "ParentDir"} /\ as_path(n.it) # <<>>
       THEN Ok(as_path(n.it))
       ELSE Err

\* Path::parent: what is left of the path before its last component
PathParent(s) ==
    LET n == ComponentsNextBack(PathComponents(s))
    IN IF n.item.kind \in {"Normal", "CurDir", "ParentDir"}
       THEN Ok(as_path(n.it))
       ELSE Err

\* std::path::iter_after: the iterator left after the prefix, or failure
RECURSIVE iter_after(_, _)
iter_after(iter, prefix) ==
    LET x == ComponentsNext(iter)
        y == ComponentsNext(prefix)
    IN IF x.item # NoComponent /\ y.item # NoComponent
       THEN IF x.item = y.item THEN iter_after(x.it, y.it) ELSE Err
       ELSE IF y.item = NoComponent THEN Ok(iter)
       ELSE Err

\* Path::strip_prefix, a variant that compares the texts instead of the components
PathStripPrefix_substring(s, b) ==
    IF Len(b) <= Len(s) /\ Take(s, Len(b)) = b
    THEN Ok(as_path([path |-> Drop(s, Len(b)), has_physical_root |-> FALSE,
                     front |-> "Body", back |-> "Body"]))
    ELSE Err

\* Path::new(s).strip_prefix(b)
PathStripPrefix(s, b) ==
    LET r == iter_after(PathComponents(s), PathComponents(b))
    IN IF r.ok THEN Ok(as_path(r.val)) ELSE Err

\* Path::has_root / Path::is_absolute on Unix
PathIsAbsolute(s) == PathComponents(s).has_physical_root

\* Path::is_relative
PathIsRelative(s) == ~PathIsAbsolute(s)

\* PathBuf::push(path) on Unix
PathBufPush(buf, path) ==
    LET need_sep == buf # <<>> /\ ~is_sep(buf[Len(buf)])
    IN IF PathIsAbsolute(path) THEN path
       ELSE IF need_sep THEN buf \o <<MAIN_SEPARATOR>> \o path
       ELSE buf \o path

\* for c in comps { buf.push(c) }
RECURSIVE PushAll(_, _)
PushAll(buf, comps) ==
    IF comps = <<>> THEN buf
    ELSE PushAll(PathBufPush(buf, as_os_str(Head(comps))), Tail(comps))

\* Iterator::skip_while(|c| *c == Component::CurDir)
RECURSIVE SkipWhileCurDir(_)
SkipWhileCurDir(comps) ==
    IF comps # <<>> /\ Head(comps) = CurDir THEN SkipWhileCurDir(Tail(comps))
    ELSE comps

\* Iterator::skip(1)
Skip1(comps) == IF comps = <<>> THEN <<>> ELSE Tail(comps)

\* Path::join
PathJoin(b, s) == PathBufPush(b, s)

(***************************************************************************)
(* str_path.rs                                                             *)
(***************************************************************************)
\* From<Component> for StrPathComponent
FromComponent(c) ==
    CASE c.kind = "RootDir" -> RootDir
      [] c.kind = "CurDir" -> CurDir
      [] c.kind = "ParentDir" -> ParentDir
      [] OTHER -> Normal(c.text)

\* the closure of str_path_components! without its test i == 0
RECURSIVE MapEnumerate_anyindex(_, _)
MapEnumerate_anyindex(comps, i) ==
    IF comps = <<>> THEN <<>>
    ELSE <<IF Head(comps) = Normal(<<"~">>) THEN HomeDir ELSE FromComponent(Head(comps))>>
         \o MapEnumerate_anyindex(Tail(comps), i + 1)

\* the closure of str_path_components!, applied to (i, c) with i 0-based
RECURSIVE MapEnumerate(_, _)
MapEnumerate(comps, i) ==
    IF comps = <<>> THEN <<>>
    ELSE <<IF i = 0 /\ Head(comps) = Normal(<<"~">>) THEN HomeDir ELSE FromComponent(Head(comps))>>
         \o MapEnumerate(Tail(comps), i + 1)

\* str_path_components!(s), collected (StrPath::path_components)
str_path_components(s) == MapEnumerate(Components(s), 0)

\* str_path_components!(s).take(1).next()
FirstComponent(s) ==
    LET cs == str_path_components(s)
    IN IF cs = <<>> THEN NoComponent ELSE cs[1]

\* str_path_is_absolute! with the native test inverted
str_path_is_absolute_inverted(s) ==
    IF FirstComponent(s) = HomeDir THEN FALSE ELSE PathIsRelative(s)

\* str_path_is_absolute!
str_path_is_absolute(s) ==
    IF FirstComponent(s) = HomeDir THEN FALSE ELSE PathIsAbsolute(s)

\* str_path_is_relative! as the plain negation of the native absoluteness
str_path_is_relative_negation(s) == PathIsRelative(s)

\* str_path_is_relative!
str_path_is_relative(s) ==
    IF FirstComponent(s) = HomeDir THEN FALSE ELSE PathIsRelative(s)

\* str_path_is_relative_to_home!
str_path_is_relative_to_home(s) == FirstComponent(s) = HomeDir

\* str_path_absolute! resolving against the current directory without skipping "."
str_path_absolute_noskip(s, cur, hom) ==
    IF str_path_is_absolute(s) THEN Ok(s)
    ELSE IF str_path_is_relative(s) THEN
        IF cur.ok THEN Ok(PushAll(cur.val, Components(s))) ELSE Err
    ELSE
        IF hom.ok THEN Ok(PushAll(hom.val, Components(s))) ELSE Err

\* str_path_absolute! returning every text that is not plain relative unchanged
str_path_absolute_notrelative(s, cur, hom) ==
    IF ~str_path_is_relative(s) THEN Ok(s)
    ELSE IF cur.ok THEN Ok(PushAll(cur.val, SkipWhileCurDir(Components(s)))) ELSE Err

\* str_path_absolute!(s), with what env::current_dir() and dirs::home_dir() return
str_path_absolute(s, cur, hom) ==
    IF str_path_is_absolute(s) THEN Ok(s)
    ELSE IF str_path_is_relative(s) THEN
        IF cur.ok THEN Ok(PushAll(cur.val, SkipWhileCurDir(Components(s)))) ELSE Err
    ELSE
        IF hom.ok THEN Ok(PushAll(hom.val, Skip1(Components(s)))) ELSE Err

\* str_path_simple_relative!
str_path_simple_relative(s, cur, hom) ==
    IF cur.ok THEN
        LET abs_path == str_path_absolute(s, cur, hom)
        IN IF abs_path.ok THEN PathStripPrefix(abs_path.val, cur.val) ELSE Err
    ELSE Err

\* str_path_simple_relative_home! without the leading "~"
str_path_simple_relative_home_nomarker(s, cur, hom) ==
    IF hom.ok THEN
        LET abs_path == str_path_absolute(s, cur, hom)
        IN IF abs_path.ok THEN PathStripPrefix(abs_path.val, hom.val) ELSE Err
    ELSE Err

\* str_path_simple_relative_home!
str_path_simple_relative_home(s, cur, hom) ==
    IF hom.ok THEN
        LET abs_path == str_path_absolute(s, cur, hom)
        IN IF abs_path.ok THEN
               LET path == PathStripPrefix(abs_path.val, hom.val)
               IN IF path.ok
                  THEN Ok(PathBufPush(PathBufPush(<<>>, <<"~">>), path.val))
                  ELSE Err
           ELSE Err
    ELSE Err

\* str_path_file_name! (StrPath::path_file_name)
str_path_file_name(s) == PathFileName(s)

\* str_path_parent! (StrPath::path_parent)
str_path_parent(s) == PathParent(s)

\* str_path_join! (StrPath::path_join)
str_path_join(s1, s2) == PathJoin(s1, s2)

\* StringPathBuf::path_push, the branch taken when target_os is not windows
path_push(self, path) ==
    IF str_path_is_absolute(path) THEN path
    ELSE self \o <<MAIN_SEPARATOR>> \o path

\* ToString for StrPathComponent, with HomeDir rendered as the empty text
ComponentToString_emptyhome(c) ==
    CASE c.kind = "RootDir" -> <<MAIN_SEPARATOR>>
      [] c.kind = "HomeDir" -> <<>>
      [] c.kind = "CurDir" -> <<".">>
      [] c.kind = "ParentDir" -> <<".", ".">>
      [] OTHER -> c.text

\* ToString for StrPathComponent
ComponentToString(c) ==
    CASE c.kind = "RootDir" -> <<MAIN_SEPARATOR>>
      [] c.kind = "HomeDir" -> <<"~">>
      [] c.kind = "CurDir" -> <<".">>
      [] c.kind = "ParentDir" -> <<".", ".">>
      [] OTHER -> c.text

\* ToStringPath for [StrPathComponent]
RECURSIVE to_string_path_from(_, _)
to_string_path_from(path_buf, comps) ==
    IF comps = <<>> THEN path_buf
    ELSE to_string_path_from(PathBufPush(path_buf, ComponentToString(Head(comps))), Tail(comps))

to_string_path(comps) == to_string_path_from(<<>>, comps)

(***************************************************************************)
(* lib.rs                                                                  *)
(***************************************************************************)
\* split_path_text cutting at index instead of index + 1
split_path_text_offbyone(t) ==
    LET index == RPosition(t)
    IN IF index # -1 THEN <<Take(t, index), Drop(t, index)>>
       ELSE <<<<>>, t>>

\* split_path_text: text.rfind(MAIN_SEPARATOR), then the two slices
split_path_text(t) ==
    LET index == RPosition(t)
    IN IF index # -1 THEN <<Take(t, index + 1), Drop(t, index + 1)>>
       ELSE <<<<>>, t>>

\* dir_path_text
dir_path_text(t) == split_path_text(t)[1]

\* file_name_text
file_name_text(t) == split_path_text(t)[2]

\* what a call of absolute_path_buf ends in: a returned PathBuf, or a panic
Returned(v) == [panic |-> FALSE, val |-> v]
Panicked == [panic |-> TRUE, val |-> <<>>]

\* absolute_path_buf(path), with what env::current_dir() returns
absolute_path_buf(path, cur) ==
    IF PathIsRelative(path) THEN
        IF cur.ok THEN
            LET first == ComponentsNext(PathComponents(path))
            IN IF first.item # NoComponent THEN
                   IF first.item = CurDir
                   THEN Returned(PathJoin(cur.val, as_path(first.it)))
                   ELSE Returned(PathJoin(cur.val, path))
               ELSE Returned(cur.val)
        ELSE Panicked
    ELSE Returned(path)

(***************************************************************************)
(* The state machine: one path text, the process environment, and the      *)
(* operation last applied with its result.                                 *)
(***************************************************************************)
\* no directory listing under way
NoListing ==
    /\ read_dir = <<>>
    /\ listing = "idle"
    /\ next_entry = 1
    /\ entries = <<>>
    /\ stderr_log = <<>>

Init ==
    /\ text \in Texts
    /\ cwd \in CwdValues
    /\ home \in HomeValues
    /\ op = "init"
    /\ base = <<>>
    /\ result = <<>>
    /\ NoListing

Apply(name, b, r) ==
    /\ op' = name
    /\ base' = b
    /\ result' = r
    /\ UNCHANGED <<text, cwd, home, dir_vars>>

PathComponentsOp == Apply("components", <<>>, str_path_components(text))

ToStringPathOp ==
    /\ op = "components"
    /\ Apply("to_string_path", <<>>, to_string_path(result))

ReclassifyOp ==
    /\ op = "to_string_path"
    /\ Apply("reclassified", <<>>, str_path_components(result))

IsAbsoluteOp == Apply("is_absolute", <<>>, str_path_is_absolute(text))

IsRelativeOp == Apply("is_relative", <<>>, str_path_is_relative(text))

IsRelativeToHomeOp == Apply("is_relative_to_home", <<>>, str_path_is_relative_to_home(text))

AbsoluteOp == Apply("absolute", <<>>, str_path_absolute(text, cwd, home))

AbsoluteAgainOp ==
    /\ op = "absolute"
    /\ result.ok
    /\ Apply("absolute_again", <<>>, str_path_absolute(result.val, cwd, home))

SimpleRelativeOp == Apply("simple_relative", <<>>, str_path_simple_relative(text, cwd, home))

SimpleRelativeHomeOp ==
    Apply("simple_relative_home", <<>>, str_path_simple_relative_home(text, cwd, home))

PathJoinOp == \E b \in Bases : Apply("path_join", b, str_path_join(b, text))

PathPushOp == \E b \in Bases : Apply("path_push", b, path_push(b, text))

Next ==
    \/ PathComponentsOp
    \/ ToStringPathOp
    \/ ReclassifyOp
    \/ IsAbsoluteOp
    \/ IsRelativeOp
    \/ IsRelativeToHomeOp
    \/ AbsoluteOp
    \/ AbsoluteAgainOp
    \/ SimpleRelativeOp
    \/ SimpleRelativeHomeOp
    \/ PathJoinOp
    \/ PathPushOp

Spec == Init /\ [][Next]_vars

(***************************************************************************)
(* The remaining path operations, on the same inputs                       *)
(***************************************************************************)
FileNameOp == Apply("file_name", <<>>, str_path_file_name(text))

ParentOp == Apply("parent", <<>>, str_path_parent(text))

AbsolutePathBufOp == Apply("absolute_path_buf", <<>>, absolute_path_buf(text, cwd))

SplitPathTextOp == Apply("split_path_text", <<>>, split_path_text(text))

DirPathTextOp == Apply("dir_path_text", <<>>, dir_path_text(text))

FileNameTextOp == Apply("file_name_text", <<>>, file_name_text(text))

NextPaths ==
    \/ FileNameOp
    \/ ParentOp
    \/ AbsoluteOp
    \/ SimpleRelativeOp
    \/ SimpleRelativeHomeOp
    \/ AbsolutePathBufOp
    \/ SplitPathTextOp
    \/ DirPathTextOp
    \/ FileNameTextOp

SpecPaths == Init /\ [][NextPaths]_vars

(***************************************************************************)
(* usable_dir_entries (lib.rs): one call, one step per item of read_dir    *)
(***************************************************************************)
\* what one item of the ReadDir iterator can turn out to be: the entry and its
\* metadata are read ("ok"), dir_entry.metadata() fails, or the item is an Err
Outcomes ==
    {"ok", "meta_notfound", "meta_denied", "meta_other",
     "entry_notfound", "entry_denied", "entry_other"}

RECURSIVE ListingsOfLen(_)
ListingsOfLen(k) ==
    IF k = 0 THEN {<<>>}
    ELSE {Append(l, o) : l \in ListingsOfLen(k - 1), o \in Outcomes}

Listings == UNION {ListingsOfLen(k) : k \in 0..MaxEntries}

\* err.kind() with a NotFound from metadata() taken for an unexpected kind
err_kind_metafatal(o) ==
    CASE o = "entry_notfound" -> "NotFound"
      [] o \in {"meta_denied", "entry_denied"} -> "PermissionDenied"
      [] OTHER -> "Other"

\* err.kind() of a failed item, as the two match statements distinguish it
err_kind(o) ==
    CASE o \in {"meta_notfound", "entry_notfound"} -> "NotFound"
      [] o \in {"meta_denied", "entry_denied"} -> "PermissionDenied"
      [] OTHER -> "Other"

InitDir ==
    /\ text = <<>>
    /\ cwd = Err
    /\ home = Err
    /\ op = "init"
    /\ base = <<>>
    /\ result = <<>>
    /\ read_dir \in Listings
    /\ listing = "idle"
    /\ next_entry = 1
    /\ entries = <<>>
    /\ stderr_log = <<>>

Current == read_dir[next_entry]

Iterating == listing = "iterating" /\ next_entry <= Len(read_dir)

\* let read_dir = dir_path.read_dir()?; let mut entries = Vec::new();
ReadDirOp ==
    /\ listing = "idle"
    /\ \E opened \in BOOLEAN : listing' = IF opened THEN "iterating" ELSE "failed"
    /\ UNCHANGED <<text, cwd, home, op, base, result, read_dir, next_entry, entries, stderr_log>>

\* Ok(dir_entry), Ok(metadata): entries.push(usable_entry)
EntryUsable ==
    /\ Iterating
    /\ Current = "ok"
    /\ entries' = Append(entries, next_entry)
    /\ next_entry' = next_entry + 1
    /\ UNCHANGED <<text, cwd, home, op, base, result, read_dir, listing, stderr_log>>

\* io::ErrorKind::NotFound: ignored
EntryNotFound ==
    /\ Iterating
    /\ Current # "ok"
    /\ err_kind(Current) = "NotFound"
    /\ next_entry' = next_entry + 1
    /\ UNCHANGED <<text, cwd, home, op, base, result, read_dir, listing, entries, stderr_log>>

\* io::ErrorKind::PermissionDenied: written to stderr; panic! when that write fails
EntryPermissionDenied ==
    /\ Iterating
    /\ Current # "ok"
    /\ err_kind(Current) = "PermissionDenied"
    /\ \E written \in BOOLEAN :
          IF written
          THEN /\ stderr_log' = Append(stderr_log, next_entry)
               /\ next_entry' = next_entry + 1
               /\ UNCHANGED listing
          ELSE /\ listing' = "panic_stderr"
               /\ UNCHANGED <<stderr_log, next_entry>>
    /\ UNCHANGED <<text, cwd, home, op, base, result, read_dir, entries>>

\* any other io::ErrorKind: panic!
EntryOtherError ==
    /\ Iterating
    /\ Current # "ok"
    /\ err_kind(Current) = "Other"
    /\ listing' = "panic_kind"
    /\ UNCHANGED <<text, cwd, home, op, base, result, read_dir, next_entry, entries, stderr_log>>

\* Ok(entries)
ReturnEntries ==
    /\ listing = "iterating"
    /\ next_entry > Len(read_dir)
    /\ listing' = "returned"
    /\ UNCHANGED <<text, cwd, home, op, base, result, read_dir, next_entry, entries, stderr_log>>

NextDir ==
    \/ ReadDirOp
    \/ EntryUsable
    \/ EntryNotFound
    \/ EntryPermissionDenied
    \/ EntryOtherError
    \/ ReturnEntries

SpecDir == InitDir /\ [][NextDir]_vars

(***************************************************************************)
(* Text-level vocabulary of the properties                                 *)
(***************************************************************************)
\* the segments of a text: the maximal separator-free pieces, empty ones dropped
RECURSIVE Segments(_)
Segments(s) ==
    IF s = <<>> THEN <<>>
    ELSE IF is_sep(s[1]) THEN Segments(Tail(s))
    ELSE LET n == IF \E i \in 1..Len(s) : is_sep(s[i])
                  THEN (CHOOSE i \in 1..Len(s) : is_sep(s[i]) /\ \A j \in 1..(i - 1) : ~is_sep(s[j])) - 1
                  ELSE Len(s)
         IN <<SubSeq(s, 1, n)>> \o Segments(SubSeq(s, n + 1, Len(s)))

StartsWithSep(s) == s # <<>> /\ s[1] = "/"

EndsWithSep(s) == s # <<>> /\ s[Len(s)] = "/"

\* the text begins with the segment "~": it is "~" or starts with "~/"
StartsWithTilde(s) ==
    /\ s # <<>>
    /\ s[1] = "~"
    /\ (Len(s) = 1 \/ s[2] = "/")

IsPrefixSeq(a, b) == Len(a) <= Len(b) /\ SubSeq(b, 1, Len(a)) = a

SegmentComponent(seg) ==
    IF seg = <<".">> THEN CurDir
    ELSE IF seg = <<".", ".">> THEN ParentDir
    ELSE Normal(seg)

\* every segment classified literally, "~" as HomeDir at index 0 only
LiteralClassify(s) ==
    LET segs == Segments(s)
        body == [i \in 1..Len(segs) |->
                    IF i = 1 /\ ~StartsWithSep(s) /\ segs[i] = <<"~">> THEN HomeDir
                    ELSE SegmentComponent(segs[i])]
    IN (IF StartsWithSep(s) THEN <<RootDir>> ELSE <<>>) \o body

\* the segments with every "." dropped except a first segment of a text that
\* does not start with a separator
RECURSIVE DropInnerDots(_, _)
DropInnerDots(segs, first) ==
    IF segs = <<>> THEN <<>>
    ELSE (IF Head(segs) = <<".">> /\ ~first THEN <<>> ELSE <<Head(segs)>>)
         \o DropInnerDots(Tail(segs), FALSE)

NativeSequence(s) ==
    LET segs == DropInnerDots(Segments(s), ~StartsWithSep(s))
        body == [i \in 1..Len(segs) |-> SegmentComponent(segs[i])]
    IN (IF StartsWithSep(s) THEN <<RootDir>> ELSE <<>>) \o body

\* the native sequence with the Home-Directory rule applied at index 0
NativeClassify(s) ==
    LET n == NativeSequence(s)
    IN IF n # <<>> /\ n[1] = Normal(<<"~">>) THEN <<HomeDir>> \o Tail(n) ELSE n

\* base text followed by the components' texts, one separator before each
RECURSIVE AppendedText(_, _)
AppendedText(b, comps) ==
    IF comps = <<>> THEN b
    ELSE AppendedText((IF EndsWithSep(b) THEN b ELSE b \o <<"/">>) \o as_os_str(Head(comps)),
                      Tail(comps))

RECURSIVE DropLeadingCurDirs(_)
DropLeadingCurDirs(comps) ==
    IF comps # <<>> /\ comps[1].kind = "CurDir" THEN DropLeadingCurDirs(Tail(comps))
    ELSE comps

Count(b1, b2, b3) ==
    (IF b1 THEN 1 ELSE 0) + (IF b2 THEN 1 ELSE 0) + (IF b3 THEN 1 ELSE 0)

(***************************************************************************)
(* C1: the classified sequence contains HomeDir iff the text's first       *)
(* native component is the segment "~" (the text is "~" or starts "~/");   *)
(* HomeDir is then at index 0 only, and a "~" segment at a later index is  *)
(* Normal("~").                                                            *)
(***************************************************************************)
C1_HomeDirOnlyFirst ==
    op = "components" =>
        LET native == Components(text)
        IN /\ Len(result) = Len(native)
           /\ (\E i \in 1..Len(result) : result[i] = HomeDir) <=> StartsWithTilde(text)
           /\ StartsWithTilde(text) <=> (native # <<>> /\ native[1] = Normal(<<"~">>))
           /\ StartsWithTilde(text) => result[1] = HomeDir
           /\ \A i \in 2..Len(result) :
                 /\ result[i] # HomeDir
                 /\ native[i] = Normal(<<"~">>) => result[i] = Normal(<<"~">>)

C1_Witness ==
    /\ op = "components"
    /\ text = <<"~", "/", "~">>
    /\ result = <<HomeDir, Normal(<<"~">>)>>

(***************************************************************************)
(* C2: for every non-empty text exactly one of is_absolute, is_relative    *)
(* and is_relative_to_home is true; a text whose first component is        *)
(* HomeDir is neither absolute nor relative.                               *)
(***************************************************************************)
C2_PredicatesPartition ==
    text # <<>> =>
        /\ Count(str_path_is_absolute(text), str_path_is_relative(text),
                 str_path_is_relative_to_home(text)) = 1
        /\ ~(str_path_is_absolute(text) /\ str_path_is_relative_to_home(text))
        /\ StartsWithTilde(text) =>
              ~str_path_is_absolute(text) /\ ~str_path_is_relative(text)
        /\ op = "is_absolute" => result = StartsWithSep(text)
        /\ op = "is_relative_to_home" => result = StartsWithTilde(text)
        /\ op = "is_relative" => result = (~StartsWithSep(text) /\ ~StartsWithTilde(text))

C2_Witness ==
    /\ op = "is_relative"
    /\ text = <<"~", "/", "a">>
    /\ result = FALSE

(***************************************************************************)
(* C3: with cwd and home available, absolute(p) is p itself when p is      *)
(* absolute; the home text with the components of p after index 0          *)
(* appended when p is home-relative; otherwise the cwd text with the       *)
(* components of p appended after skipping the leading CurDir components.  *)
(***************************************************************************)
C3_AbsoluteReference ==
    (op = "absolute" /\ cwd.ok /\ home.ok) =>
        /\ result.ok
        /\ result.val =
              IF StartsWithSep(text) THEN text
              ELSE IF StartsWithTilde(text)
                   THEN AppendedText(home.val, Tail(NativeClassify(text)))
                   ELSE AppendedText(cwd.val, DropLeadingCurDirs(NativeClassify(text)))

C3_Witness ==
    /\ op = "absolute"
    /\ home = Ok(<<"/", "a">>)
    /\ cwd.ok
    /\ text = <<"~", "/", "a">>
    /\ result = Ok(<<"/", "a", "/", "a">>)

(***************************************************************************)
(* C4: whenever absolute(p) succeeds, its result satisfies is_absolute:    *)
(* its first component is RootDir, not HomeDir and not CurDir.             *)
(***************************************************************************)
C4_AbsoluteIsAbsolute ==
    (op = "absolute" /\ result.ok) =>
        /\ str_path_is_absolute(result.val)
        /\ StartsWithSep(result.val)
        /\ str_path_components(result.val)[1] = RootDir

C4_Witness ==
    /\ op = "absolute"
    /\ text = <<".", ".">>
    /\ result.ok
    /\ result.val = <<"/", "a", "/", ".", ".">>

(***************************************************************************)
(* C5: absolute is idempotent: applying it to a successful result of       *)
(* absolute succeeds and leaves the text unchanged.                        *)
(***************************************************************************)
C5_AbsoluteIdempotent ==
    [][(op = "absolute" /\ op' = "absolute_again") => result' = result]_vars

C5_Witness ==
    /\ op = "absolute_again"
    /\ text = <<".", "/", "a">>
    /\ result = Ok(<<"/", "a", "/", "a">>)

(***************************************************************************)
(* C6: simple_relative(p) succeeds exactly when the component sequence of  *)
(* absolute(p) begins with the whole component sequence of cwd, and then   *)
(* returns the remaining components as a text; the match is by component,  *)
(* so cwd "/a" is not a prefix of "/aa".                                   *)
(***************************************************************************)
C6_SimpleRelative ==
    op = "simple_relative" =>
        LET a == str_path_absolute(text, cwd, home)
            under == /\ cwd.ok
                     /\ a.ok
                     /\ IsPrefixSeq(NativeSequence(cwd.val), NativeSequence(a.val))
        IN /\ result.ok <=> under
           /\ result.ok =>
                 /\ NativeSequence(cwd.val) \o NativeSequence(result.val) = NativeSequence(a.val)
                 /\ ~StartsWithSep(result.val)
                 /\ ~EndsWithSep(result.val)

C6_Witness ==
    /\ op = "simple_relative"
    /\ cwd = Ok(<<"/", "a">>)
    /\ text = <<"/", "a", "/", "a">>
    /\ result = Ok(<<"a">>)

(***************************************************************************)
(* C7: when the absolute form of p is under the home directory,            *)
(* relative_to_home(p) is "~" followed by the components of absolute(p)    *)
(* left after the home directory's components, and that text is            *)
(* home-relative; otherwise relative_to_home(p) fails.                     *)
(***************************************************************************)
C7_RelativeToHome ==
    op = "simple_relative_home" =>
        LET a == str_path_absolute(text, cwd, home)
            under == /\ home.ok
                     /\ a.ok
                     /\ IsPrefixSeq(NativeSequence(home.val), NativeSequence(a.val))
        IN /\ result.ok <=> under
           /\ result.ok =>
                 /\ StartsWithTilde(result.val)
                 /\ str_path_is_relative_to_home(result.val)
                 /\ NativeClassify(result.val)[1] = HomeDir
                 /\ NativeSequence(home.val) \o Tail(NativeClassify(result.val))
                       = NativeSequence(a.val)

C7_Witness ==
    /\ op = "simple_relative_home"
    /\ home = Ok(<<"/", "a">>)
    /\ text = <<"/", "a", "/", "~">>
    /\ result = Ok(<<"~", "/", "~">>)

(***************************************************************************)
(* C8: path_join and path_push give the same result for every base and     *)
(* child: child alone when child is absolute, otherwise base followed by   *)
(* child with exactly one separator between them, also when base already   *)
(* ends with a separator.                                                  *)
(***************************************************************************)
C8_JoinAndPushAgree ==
    /\ op = "path_push" => result = str_path_join(base, text)
    /\ (op \in {"path_join", "path_push"} /\ StartsWithSep(text)) => result = text
    /\ (op \in {"path_join", "path_push"} /\ ~StartsWithSep(text) /\ EndsWithSep(base)) =>
          result = base \o text
    /\ (op \in {"path_join", "path_push"} /\ ~StartsWithSep(text) /\ base # <<>>
          /\ ~EndsWithSep(base)) =>
          result = base \o <<"/">> \o text

(***************************************************************************)
(* C9: rendering the classified sequence of p with to_string_path and      *)
(* classifying the rendered text again gives the classified sequence of p. *)
(***************************************************************************)
C9_RoundTrip ==
    op = "reclassified" => result = str_path_components(text)

C9_Witness ==
    /\ op = "reclassified"
    /\ text = <<"~", "/", "/", "~">>
    /\ result = <<HomeDir, Normal(<<"~">>)>>

(***************************************************************************)
(* C10 (as stated): classification keeps every "." and every ".." segment  *)
(* of the text as a CurDir or ParentDir component at its position; runs of *)
(* separators count as one and a trailing separator adds nothing.          *)
(***************************************************************************)
C10_EverySegmentKept ==
    op = "components" => result = LiteralClassify(text)

(***************************************************************************)
(* C10 (amended): classification never fails; runs of separators count as  *)
(* one, a trailing separator adds nothing, every ".." segment is kept as   *)
(* ParentDir at its position, and a "." segment is kept as CurDir only     *)
(* when it is the first segment of a text that does not start with a       *)
(* separator (every other "." segment is dropped); the empty text gives    *)
(* the empty sequence and "/" gives the single component RootDir.          *)
(***************************************************************************)
C10_LexicalRules ==
    op = "components" =>
        /\ result = NativeClassify(text)
        /\ text = <<>> => result = <<>>
        /\ text = <<"/">> => result = <<RootDir>>

C10_Witness ==
    /\ op = "components"
    /\ text = <<".", "/", ".", ".">>
    /\ result = <<CurDir, ParentDir>>

(***************************************************************************)
(* C11 (as stated): file_name(p) is the text of the last Normal component  *)
(* of p, and is none exactly when the component sequence is empty, ends in *)
(* RootDir, or consists only of CurDir/ParentDir components.               *)
(***************************************************************************)
C11_LastNormalAnywhere ==
    op = "file_name" =>
        LET n == NativeSequence(text)
            normals == {i \in 1..Len(n) : n[i].kind = "Normal"}
            none == \/ n = <<>>
                    \/ n[Len(n)] = RootDir
                    \/ \A i \in 1..Len(n) : n[i].kind \in {"CurDir", "ParentDir"}
        IN /\ ~result.ok <=> none
           /\ result.ok =>
                 result.val = n[CHOOSE i \in normals : \A j \in normals : j <= i].text

(***************************************************************************)
(* C11 (amended): file_name(p) is the text of the last component of p when *)
(* that component is Normal, and is none exactly when the component        *)
(* sequence is empty or its last component is RootDir, CurDir or ParentDir *)
(* ("a/.." gives none).                                                    *)
(***************************************************************************)
C11_FileName ==
    op = "file_name" =>
        LET n == NativeSequence(text)
            none == \/ n = <<>>
                    \/ n[Len(n)].kind \in {"RootDir", "CurDir", "ParentDir"}
        IN /\ ~result.ok <=> none
           /\ result.ok => n[Len(n)] = Normal(result.val)

C11_Witness ==
    /\ op = "file_name"
    /\ text = <<"a", "/", ".", ".">>
    /\ result = Err

(***************************************************************************)
(* C12: parent(p) is the text of all components of p except the last: the  *)
(* empty text (not none) for a single-level relative path, "/" for a       *)
(* single level under the root, and none when p is just RootDir.           *)
(***************************************************************************)
C12_Parent ==
    op = "parent" =>
        LET n == NativeSequence(text)
        IN /\ n = <<RootDir>> => ~result.ok
           /\ (n # <<>> /\ n # <<RootDir>>) =>
                 /\ result.ok
                 /\ IsPrefixSeq(result.val, text)
                 /\ NativeSequence(result.val) = SubSeq(n, 1, Len(n) - 1)
           /\ (Len(n) = 1 /\ n # <<RootDir>>) => result = Ok(<<>>)
           /\ (Len(n) = 2 /\ n[1] = RootDir) => result = Ok(<<"/">>)

C12_Witness ==
    /\ op = "parent"
    /\ text = <<"/", "a">>
    /\ result = Ok(<<"/">>)

(***************************************************************************)
(* C13: whenever the current directory or the home directory that a        *)
(* resolution needs (absolute, simple_relative, relative_to_home,          *)
(* absolute_path_buf) cannot be determined, the operation returns an error *)
(* result to its caller; no resolver operation aborts the process, for any *)
(* input text.                                                             *)
(***************************************************************************)
C13_FailuresSurfaced ==
    LET needs_cwd == ~StartsWithSep(text) /\ ~StartsWithTilde(text)
        needs_home == StartsWithTilde(text)
    IN /\ (op = "absolute" /\ needs_cwd /\ ~cwd.ok) => result = Err
       /\ (op = "absolute" /\ needs_home /\ ~home.ok) => result = Err
       /\ (op = "simple_relative" /\ (~cwd.ok \/ (needs_home /\ ~home.ok))) => result = Err
       /\ (op = "simple_relative_home" /\ (~home.ok \/ (needs_cwd /\ ~cwd.ok))) => result = Err
       /\ op = "absolute_path_buf" => ~result.panic

(***************************************************************************)
(* C14: split_path_text(text) is a pair (dir, file) whose concatenation is *)
(* text, where file contains no separator and dir is empty (text has no    *)
(* separator) or ends with the last separator of text; dir_path_text and   *)
(* file_name_text return these two parts.                                  *)
(***************************************************************************)
HasSep(s) == \E i \in 1..Len(s) : s[i] = "/"

\* (d, f) is the split of t at its last separator
IsSplitOf(d, f, t) ==
    /\ d \o f = t
    /\ ~HasSep(f)
    /\ IF HasSep(t) THEN EndsWithSep(d) ELSE d = <<>>

C14_SplitPathText ==
    /\ op = "split_path_text" => IsSplitOf(result[1], result[2], text)
    /\ op = "dir_path_text" =>
          /\ IsPrefixSeq(result, text)
          /\ IsSplitOf(result, SubSeq(text, Len(result) + 1, Len(text)), text)
    /\ op = "file_name_text" =>
          /\ Len(result) <= Len(text)
          /\ IsSplitOf(SubSeq(text, 1, Len(text) - Len(result)), result, text)

C14_Witness ==
    /\ op = "split_path_text"
    /\ text = <<"~", "/", "a">>
    /\ result = <<(<<"~", "/">>), (<<"a">>)>>

(***************************************************************************)
(* Vocabulary for the directory listing                                    *)
(***************************************************************************)
\* the indexes below n whose outcome is in the set, in enumeration order
RECURSIVE IndexesOf(_, _)
IndexesOf(kinds, n) ==
    IF n = 0 THEN <<>>
    ELSE IndexesOf(kinds, n - 1) \o (IF read_dir[n] \in kinds THEN <<n>> ELSE <<>>)

OtherKinds == {"meta_other", "entry_other"}

DeniedKinds == {"meta_denied", "entry_denied"}

Fatal == listing \in {"panic_kind", "panic_stderr"}

\* what a returned batch holds, and what has been reported
BatchExact ==
    /\ listing \in {"iterating", "returned"} =>
          /\ entries = IndexesOf({"ok"}, next_entry - 1)
          /\ stderr_log = IndexesOf(DeniedKinds, next_entry - 1)
    /\ listing = "returned" => next_entry = Len(read_dir) + 1

====
